---- MODULE Spec2Model ----
(***************************************************************************)
(* A model of tools/git-contributors.py: the trailer extractor             *)
(* (find_developers), the line source (backtick) and the driver (main).    *)
(*                                                                         *)
(* Text is a sequence of one-character strings.  The characters of the     *)
(* model are the letters and '-' of the tags, ':', ' ', newline, '@', ',', *)
(* '#', '<', '>' and '.'.  email.utils.parseaddr is modelled on that       *)
(* alphabet from the algorithm of email._parseaddr.AddrlistClass; the      *)
(* characters that start a comment, a quoted string, a domain literal or a *)
(* group ('(', '"', '[', '\', ':', ';') do not occur in the fields the     *)
(* model hands to it.                                                      *)
(***************************************************************************)
EXTENDS Integers, Sequences, FiniteSets, TLC

----------------------------------------------------------------------------
(* Characters *)

NL == "\n"

\* str.isspace() / the regex class \s, on the model's characters
IsSpace(c) == c \in {" ", NL}

\* the code point of a character: the order sorted() compares strings by
Ord(c) ==
  CASE c = NL -> 10 [] c = " " -> 32 [] c = "#" -> 35 [] c = "," -> 44
    [] c = "-" -> 45 [] c = "." -> 46 [] c = ":" -> 58 [] c = "<" -> 60
    [] c = ">" -> 62 [] c = "@" -> 64
    [] c = "A" -> 65 [] c = "C" -> 67 [] c = "S" -> 83 [] c = "X" -> 88
    [] c = "a" -> 97 [] c = "b" -> 98 [] c = "c" -> 99 [] c = "d" -> 100
    [] c = "e" -> 101 [] c = "f" -> 102 [] c = "g" -> 103 [] c = "i" -> 105
    [] c = "k" -> 107 [] c = "n" -> 110 [] c = "o" -> 111 [] c = "p" -> 112
    [] c = "r" -> 114 [] c = "s" -> 115 [] c = "t" -> 116 [] c = "u" -> 117
    [] c = "v" -> 118 [] c = "w" -> 119 [] c = "x" -> 120 [] c = "y" -> 121
    [] OTHER -> 0

\* str.lower() of one character: what re.I compares
Lower(c) ==
  CASE c = "A" -> "a" [] c = "C" -> "c" [] c = "S" -> "s" [] c = "X" -> "x"
    [] OTHER -> c

----------------------------------------------------------------------------
(* email.utils.parseaddr (email._parseaddr.AddrlistClass) *)

\* AddrlistClass.specials, LWS, FWS, atomends, phraseends
IsSpecial(c) == c \in {"<", ">", "@", ",", ":", "."}
IsLWS(c) == c = " "
IsFWS(c) == c \in {" ", NL}
IsAtomEnd(c) == IsSpecial(c) \/ IsFWS(c)
IsPhraseEnd(c) == IsAtomEnd(c) /\ c # "."

RECURSIVE Flatten(_)
\* EMPTYSTRING.join(list)
Flatten(ss) == IF ss = <<>> THEN <<>> ELSE Head(ss) \o Flatten(Tail(ss))

RECURSIVE gotonext_loop(_, _, _)
gotonext_loop(f, pos, ws) ==
  IF pos <= Len(f) /\ IsFWS(f[pos])
  THEN gotonext_loop(f, pos + 1, IF f[pos] = NL THEN ws ELSE Append(ws, f[pos]))
  ELSE [val |-> ws, pos |-> pos]

\* gotonext: skip white space; the skipped blanks and the new position
gotonext(f, pos) == gotonext_loop(f, pos, <<>>)

RECURSIVE getatom_loop(_, _, _, _)
getatom_loop(f, pos, dotends, atom) ==
  IF pos <= Len(f) /\ ~(IF dotends THEN IsAtomEnd(f[pos]) ELSE IsPhraseEnd(f[pos]))
  THEN getatom_loop(f, pos + 1, dotends, Append(atom, f[pos]))
  ELSE [val |-> atom, pos |-> pos]

\* getatom(atomends): dotends is TRUE for self.atomends, FALSE for phraseends
getatom(f, pos, dotends) == getatom_loop(f, pos, dotends, <<>>)

RECURSIVE getphraselist_loop(_, _, _), getphraselist_atom(_, _, _)
getphraselist_atom(f, plist, a) ==
  getphraselist_loop(f, a.pos, Append(plist, a.val))

getphraselist_loop(f, pos, plist) ==
  IF pos > Len(f) THEN [val |-> plist, pos |-> pos]
  ELSE IF IsFWS(f[pos]) THEN getphraselist_loop(f, pos + 1, plist)
  ELSE IF IsPhraseEnd(f[pos]) THEN [val |-> plist, pos |-> pos]
  ELSE getphraselist_atom(f, plist, getatom(f, pos, FALSE))

\* getphraselist: the atoms of the phrase and the new position
getphraselist(f, pos) == getphraselist_loop(f, pos, <<>>)

RECURSIVE getdomain_loop(_, _, _), getdomain_atom(_, _, _)
getdomain_atom(f, sdlist, a) == getdomain_loop(f, a.pos, Append(sdlist, a.val))

getdomain_loop(f, pos, sdlist) ==
  IF pos > Len(f) THEN [val |-> Flatten(sdlist), pos |-> pos]
  ELSE IF IsLWS(f[pos]) THEN getdomain_loop(f, pos + 1, sdlist)
  ELSE IF f[pos] = "." THEN getdomain_loop(f, pos + 1, Append(sdlist, <<".">>))
  ELSE IF f[pos] = "@" THEN [val |-> <<>>, pos |-> pos]
  ELSE IF IsAtomEnd(f[pos]) THEN [val |-> Flatten(sdlist), pos |-> pos]
  ELSE getdomain_atom(f, sdlist, getatom(f, pos, TRUE))

getdomain(f, pos) == getdomain_loop(f, pos, <<>>)

\* not aslist[-1].strip(): the last piece is blank
LastBlank(aslist) ==
  /\ aslist # <<>>
  /\ \A i \in 1..Len(aslist[Len(aslist)]) : IsSpace(aslist[Len(aslist)][i])

\* if aslist and not aslist[-1].strip(): aslist.pop()
PopBlank(aslist) ==
  IF LastBlank(aslist) THEN SubSeq(aslist, 1, Len(aslist) - 1) ELSE aslist

RECURSIVE getaddrspec_loop(_, _, _), getaddrspec_atom(_, _, _), getaddrspec_ws(_, _, _)
\* ws = self.gotonext(); if preserve_ws and ws: aslist.append(ws)
getaddrspec_ws(f, aslist, g) ==
  getaddrspec_loop(f, g.pos, IF g.val # <<>> THEN Append(aslist, g.val) ELSE aslist)

getaddrspec_atom(f, aslist, a) ==
  getaddrspec_ws(f, Append(aslist, a.val), gotonext(f, a.pos))

getaddrspec_loop(f, pos, aslist) ==
  IF pos > Len(f) THEN [val |-> aslist, pos |-> pos]
  ELSE IF f[pos] = "."
  THEN getaddrspec_loop(f, gotonext(f, pos + 1).pos,
                        Append(PopBlank(aslist), <<".">>))
  ELSE IF IsAtomEnd(f[pos]) THEN [val |-> PopBlank(aslist), pos |-> pos]
  ELSE getaddrspec_atom(f, aslist, getatom(f, pos, TRUE))

\* the end of getaddrspec, after '@': the domain d
getaddrspec_domain(local, d) ==
  IF d.val = <<>> THEN [val |-> <<>>, pos |-> d.pos]
  ELSE [val |-> local \o <<"@">> \o d.val, pos |-> d.pos]

\* getaddrspec after its loop, l the local part and the position
getaddrspec_local(f, l) ==
  IF l.pos > Len(f) \/ f[l.pos] # "@"
  THEN [val |-> Flatten(l.val), pos |-> l.pos]
  ELSE getaddrspec_domain(Flatten(l.val),
                          getdomain(f, gotonext(f, l.pos + 1).pos))

getaddrspec(f, pos) ==
  getaddrspec_local(f, getaddrspec_loop(f, gotonext(f, pos).pos, <<>>))

\* adlist = self.getaddrspec(); self.pos += 1
getrouteaddr_spec(a) == [val |-> a.val, pos |-> a.pos + 1]

RECURSIVE getrouteaddr_loop(_, _, _)
getrouteaddr_loop(f, pos, expectroute) ==
  IF pos > Len(f) THEN [val |-> <<>>, pos |-> pos]
  ELSE IF expectroute
  THEN getrouteaddr_loop(f, gotonext(f, getdomain(f, pos).pos).pos, FALSE)
  ELSE IF f[pos] = ">" THEN [val |-> <<>>, pos |-> pos + 1]
  ELSE IF f[pos] = "@" THEN getrouteaddr_loop(f, gotonext(f, pos + 1).pos, TRUE)
  ELSE IF f[pos] = ":" THEN getrouteaddr_loop(f, gotonext(f, pos + 1).pos, FALSE)
  ELSE getrouteaddr_spec(getaddrspec(f, pos))

\* getrouteaddr, called at a '<'
getrouteaddr(f, pos) == getrouteaddr_loop(f, gotonext(f, pos + 1).pos, FALSE)

\* the end of getaddress: skip white space and one comma; e is the position
\* after the white space
getaddress_comma(f, val, e) ==
  [val |-> val, pos |-> IF e <= Len(f) /\ f[e] = "," THEN e + 1 ELSE e]

getaddress_end(f, r) == getaddress_comma(f, r.val, gotonext(f, r.pos).pos)

\* returnlist as [(name, addr)] with only addr kept
getaddress_one(a) == [val |-> <<a.val>>, pos |-> a.pos]

\* The branches of getaddress: plist is the phrase list read from oldpos, at
\* the position after it and the white space that follows.
getaddress_branch(f, oldpos, plist, at) ==
  IF at > Len(f)
  THEN [val |-> IF plist # <<>> THEN <<plist[1]>> ELSE <<>>, pos |-> at]
  ELSE IF f[at] \in {".", "@"} THEN getaddress_one(getaddrspec(f, oldpos))
  ELSE IF f[at] = "<" THEN getaddress_one(getrouteaddr(f, at))
  ELSE IF plist # <<>> THEN [val |-> <<plist[1]>>, pos |-> at]
  ELSE IF IsSpecial(f[at]) THEN [val |-> <<>>, pos |-> at + 1]
  ELSE [val |-> <<>>, pos |-> at]

getaddress_phrase(f, oldpos, p) ==
  getaddress_end(f, getaddress_branch(f, oldpos, p.val, gotonext(f, p.pos).pos))

getaddress_from(f, oldpos) ==
  getaddress_phrase(f, oldpos, getphraselist(f, oldpos))

\* getaddress: the addresses parsed (none or one) and the new position
getaddress(f, pos) == getaddress_from(f, gotonext(f, pos).pos)

RECURSIVE getaddrlist_loop(_, _, _), getaddrlist_add(_, _, _)
\* if ad: result += ad; else: result.append(('', ''))
getaddrlist_add(f, result, ad) ==
  getaddrlist_loop(f, ad.pos,
                   IF ad.val # <<>> THEN result \o ad.val ELSE Append(result, <<>>))

getaddrlist_loop(f, pos, result) ==
  IF pos > Len(f) THEN result
  ELSE getaddrlist_add(f, result, getaddress(f, pos))

\* AddressList(field).addresslist, the address part of each entry
getaddrlist(f) == IF f = <<>> THEN <<>> ELSE getaddrlist_loop(f, 1, <<>>)

\* what parseaddr returns of the address list
parseaddr_pick(addrs, strict) ==
  IF addrs = <<>> THEN <<>>
  ELSE IF strict /\ Len(addrs) > 1 THEN <<>>
  ELSE addrs[1]

\* email.utils.parseaddr(a)[1].  strict is the library's default: FALSE
\* returns the first address parsed, TRUE (the default since the releases
\* that added the strict parameter) returns '' unless exactly one was parsed.
parseaddr(a, strict) == parseaddr_pick(getaddrlist(a), strict)

----------------------------------------------------------------------------
(* find_developers: the three patterns and the string helpers *)

\* the alternation of regex1, in its order
Tags == <<
  <<"s","i","g","n","e","d","-","o","f","f","-","b","y">>,
  <<"a","c","k","e","d","-","b","y">>,
  <<"c","c">>,
  <<"r","e","v","i","e","w","e","d","-","b","y">>,
  <<"r","e","p","o","r","t","e","d","-","b","y">>,
  <<"t","e","s","t","e","d","-","b","y">>,
  <<"s","u","g","g","e","s","t","e","d","-","b","y">>,
  <<"r","e","p","o","r","t","e","d","-","a","n","d","-","t","e","s","t","e","d","-","b","y">> >>

Max(S) == CHOOSE x \in S : \A y \in S : y <= x
Min(S) == CHOOSE x \in S : \A y \in S : x <= y

\* no character of s[from..to] is a newline: what '.' can match
NoNL(s, from, to) == \A i \in from..to : s[i] # NL

\* a run that does not strip the line
strip_none(line) == line

strip_keep(line, keep) ==
  IF keep = {} THEN <<>> ELSE SubSeq(line, Min(keep), Max(keep))

\* str.strip()
strip(line) == strip_keep(line, {i \in 1..Len(line) : ~IsSpace(line[i])})

\* tag t, compared ignoring case, then ':' at the start of l
TagAt(l, t) ==
  /\ Len(l) >= Len(t) + 1
  /\ \A i \in 1..Len(t) : Lower(l[i]) = t[i]
  /\ l[Len(t) + 1] = ":"

\* the splits of '\s*(.+)$': no white space needed after the colon
r1_splits_no_space(l, c) ==
  UNION {{<<k, m>> : m \in {x \in k + 1..Len(l) :
                              /\ \/ x = Len(l)
                                 \/ x = Len(l) - 1 /\ l[Len(l)] = NL
                              /\ NoNL(l, k + 1, x)}} :
         k \in {y \in c..Len(l) : \A i \in c + 1..y : IsSpace(l[i])}}

\* The ways '\s+(.+)$' matches what follows the colon at index c: <<k, m>>
\* with l[c+1..k] white space, l[k+1..m] at least one character other than a
\* newline, and m the end of l or the place before a final newline.
r1_splits(l, c) ==
  UNION {{<<k, m>> : m \in {x \in k + 1..Len(l) :
                              /\ \/ x = Len(l)
                                 \/ x = Len(l) - 1 /\ l[Len(l)] = NL
                              /\ NoNL(l, k + 1, x)}} :
         k \in {y \in c + 1..Len(l) : \A i \in c + 1..y : IsSpace(l[i])}}

\* self.r1.match(l): r'^(tags):\s+(.+)$' with re.I
r1_match(l) ==
  \E n \in 1..Len(Tags) : TagAt(l, Tags[n]) /\ r1_splits(l, Len(Tags[n]) + 1) # {}

\* the first tag of the alternation with which r1 matches l
r1_tag(l) ==
  Min({j \in 1..Len(Tags) :
         TagAt(l, Tags[j]) /\ r1_splits(l, Len(Tags[j]) + 1) # {}})

r1_longest(l, S, k) == SubSeq(l, k + 1, Max({km[2] : km \in {x \in S : x[1] = k}}))

r1_greedy(l, S) == r1_longest(l, S, Max({km[1] : km \in S}))

\* m.expand(r'\g<2>'): both quantifiers are greedy, '\s+' first
r1_group2(l) == r1_greedy(l, r1_splits(l, Len(Tags[r1_tag(l)]) + 1))

\* self.r2.match(s): r'^.*,[^,]*@[^@]*,[^,]*@'
r2_match(s) ==
  \E i \in 1..Len(s) :
    /\ s[i] = "," /\ NoNL(s, 1, i - 1)
    /\ \E j \in i + 1..Len(s) :
         /\ s[j] = "@" /\ \A x \in i + 1..j - 1 : s[x] # ","
         /\ \E k \in j + 1..Len(s) :
              /\ s[k] = "," /\ \A x \in j + 1..k - 1 : s[x] # "@"
              /\ \E e \in k + 1..Len(s) :
                   s[e] = "@" /\ \A x \in k + 1..e - 1 : s[x] # ","

\* The '<' at which r'^.*<(.+)>' can match: some '>' follows at least one
\* character later.
r3_opens(a) ==
  {i \in 1..Len(a) :
     /\ a[i] = "<" /\ NoNL(a, 1, i - 1)
     /\ \E j \in i + 2..Len(a) : a[j] = ">" /\ NoNL(a, i + 1, j - 1)}

\* self.r3.match(a)
r3_match(a) == r3_opens(a) # {}

r3_from(a, i) ==
  SubSeq(a, i + 1, Max({x \in i + 2..Len(a) : a[x] = ">" /\ NoNL(a, i + 1, x - 1)}) - 1)

\* m.expand(r'\g<1>'): '.*' is greedy (the last such '<'), and so is '.+'
r3_group1(a) == r3_from(a, Max(r3_opens(a)))

RECURSIVE split(_, _), split_at(_, _, _)
split_at(s, sep, at) ==
  IF at = {} THEN <<s>>
  ELSE <<SubSeq(s, 1, Min(at) - 1)>> \o split(SubSeq(s, Min(at) + 1, Len(s)), sep)

\* str.split(sep) for a one-character sep
split(s, sep) == split_at(s, sep, {i \in 1..Len(s) : s[i] = sep})

----------------------------------------------------------------------------
(* find_developers._handle_addr and the body of run's loop *)

\* a _handle_addr that looks for angle brackets before it asks parseaddr
handle_parsed_brackets_first(a, parsed) ==
  IF r3_match(a) THEN r3_group1(a)
  ELSE IF Len(parsed) > 0 THEN parsed
  ELSE a

\* _handle_addr from line 88 on: a is the text before the first '#', parsed
\* the address parseaddr made of it
handle_parsed(a, parsed) ==
  IF Len(parsed) > 0 THEN parsed
  ELSE IF r3_match(a) THEN r3_group1(a)
  ELSE a

handle_stripped(a, strict) == handle_parsed(a, parseaddr(a, strict))

_handle_addr(addr, strict) == handle_stripped(split(addr, "#")[1], strict)

\* for addr in addrs: addr_list.append(self._handle_addr(addr))
handle_each(addrs, strict) ==
  [i \in 1..Len(addrs) |-> _handle_addr(addrs[i], strict)]

\* a run that cuts the payload at its first '#' before it looks for a list
handle_rightside_cut(a, strict) ==
  IF r2_match(a)
  THEN handle_each(split(a, ","), strict)
  ELSE <<_handle_addr(a, strict)>>

handle_rightside_strip_first(rightside, strict) ==
  handle_rightside_cut(split(rightside, "#")[1], strict)

\* what run does with the payload of a matching line
handle_rightside(rightside, strict) ==
  IF r2_match(rightside)
  THEN handle_each(split(rightside, ","), strict)
  ELSE <<_handle_addr(rightside, strict)>>

handle_line(l, strict) ==
  IF ~r1_match(l) THEN <<>> ELSE handle_rightside(r1_group2(l), strict)

NonEmpty(a) == a # <<>>

\* a loop that appends an address only if it is not empty
LineAddrs_drop_empty(line, strict) ==
  SelectSeq(handle_line(strip(line), strict), NonEmpty)

\* The addresses one iteration of run's loop appends to addr_list, in order.
LineAddrs(line, strict) == handle_line(strip(line), strict)

\* a < b for Python strings: by code point, a proper prefix first
StrLess(a, b) ==
  \E i \in 1..Len(b) :
    /\ \A j \in 1..i - 1 : j <= Len(a) /\ a[j] = b[j]
    /\ Len(a) >= i - 1
    /\ (Len(a) = i - 1 \/ Ord(a[i]) < Ord(b[i]))

Range(s) == {s[i] : i \in 1..Len(s)}

RECURSIVE SortSet(_), SortSet_from(_, _)
SortSet_from(S, m) == <<m>> \o SortSet(S \ {m})

\* sorted() of a set of strings
SortSet(S) ==
  IF S = {} THEN <<>>
  ELSE SortSet_from(S, CHOOSE x \in S : \A y \in S : x = y \/ StrLess(x, y))

RECURSIVE insert(_, _)
insert(x, s) ==
  IF s = <<>> THEN <<x>>
  ELSE IF StrLess(x, Head(s)) THEN <<x>> \o s
  ELSE <<Head(s)>> \o insert(x, Tail(s))

RECURSIVE sorted(_)
\* sorted(list): duplicates stay
sorted(list) == IF list = <<>> THEN <<>> ELSE insert(Head(list), sorted(Tail(list)))

RECURSIVE dedup(_, _)
dedup(list, seen) ==
  IF list = <<>> THEN <<>>
  ELSE IF Head(list) \in seen THEN dedup(Tail(list), seen)
  ELSE <<Head(list)>> \o dedup(Tail(list), seen \cup {Head(list)})

\* a run that returns sorted(addr_list): duplicates stay
sorted_set_keep_duplicates(addr_list) == sorted(addr_list)

\* a run that returns the distinct addresses in the order they were found
sorted_set_unsorted(addr_list) == dedup(addr_list, {})

\* sorted(set(addr_list))
sorted_set(addr_list) == SortSet(Range(addr_list))

RECURSIVE run_loop(_, _, _)
run_loop(lines, strict, addr_list) ==
  IF lines = <<>> THEN addr_list
  ELSE run_loop(Tail(lines), strict, addr_list \o LineAddrs(Head(lines), strict))

\* find_developers.run on a sequence of lines
run(lines, strict) == sorted_set(run_loop(lines, strict, <<>>))

----------------------------------------------------------------------------
(* sorted() on a list, and the output of main *)

RECURSIVE join(_, _)
\* sep.join(list)
join(sep, list) ==
  IF list = <<>> THEN <<>>
  ELSE IF Len(list) = 1 THEN list[1]
  ELSE list[1] \o sep \o join(sep, Tail(list))

\* the default of --separator
separator == <<NL>>

----------------------------------------------------------------------------
(* Inputs *)

MaxLines == 2
MaxCalls == 2
MaxPayload == 5

A1 == <<"a", "@", "b">>
A2 == <<"b", "@", "a">>
A3 == <<"c", "@", "a">>

\* Lines of commit messages: each tag, in some case, with well-formed and
\* malformed payloads, and lines that are no trailers.
Lines == {
  Tags[1] \o <<":", " ", "a", " ", "<">> \o A1 \o <<">", NL>>,
  <<" ", " ">> \o Tags[4] \o <<":", " ", " ">> \o A2 \o <<" ", NL>>,
  <<"C", "C", ":", " ">> \o A1 \o <<",", " ">> \o A2 \o <<",">> \o A3 \o <<NL>>,
  <<"A">> \o Tail(Tags[2]) \o <<":", " ", "<">> \o A1 \o <<">", " ", "#", " ", "x", NL>>,
  Tags[5] \o <<":", " ", "X", "u", ",", " ", "a", " ", "<">> \o A3 \o <<">", NL>>,
  Tags[6] \o <<":", " ">> \o A1 \o <<",", " ">> \o A2 \o <<NL>>,
  <<"S">> \o Tail(Tags[7]) \o <<":", " ", "<", ">", NL>>,
  Tags[8] \o <<":", " ">> \o A3,
  Tags[3] \o <<":", " ", "#", "x", NL>>,
  Tags[3] \o <<":", NL>>,
  Tags[3] \o <<":", " ", " ", NL>>,
  Tags[3] \o <<":">> \o A1 \o <<NL>>,
  <<"x", " ">> \o Tags[3] \o <<":", " ">> \o A3 \o <<NL>>,
  <<"d", "d", ":", " ">> \o A3 \o <<NL>> }

RECURSIVE SeqsUpTo(_, _)
SeqsLonger(shorter, S, n) ==
  shorter \cup {Append(s, x) : s \in {t \in shorter : Len(t) = n - 1}, x \in S}

\* the sequences over S of length n or less
SeqsUpTo(S, n) == IF n = 0 THEN {<<>>} ELSE SeqsLonger(SeqsUpTo(S, n - 1), S, n)

\* the line sequences handed to run
Inputs == SeqsUpTo(Lines, MaxLines)

\* what a program prints: every line but the last ends with a newline
GitOutputs ==
  {s \in Inputs : \A i \in 1..Len(s) - 1 : s[i][Len(s[i])] = NL}

\* payloads of one Cc line, every string over these characters
PayloadChars == {"a", "@", ",", "#", "<", ">"}
CcLines == {<<"C", "c", ":", " ">> \o p : p \in SeqsUpTo(PayloadChars, MaxPayload)}

----------------------------------------------------------------------------
(* The program *)

VARIABLES
  strict,     \* whether the library's parseaddr is strict by default
  argv,       \* the positional arguments of the command line
  kind,       \* what run is given: a "list" or a "generator" (backtick)
  src,        \* the lines of the list, or the lines the process prints
  pos,        \* how many lines the iterator over src has yielded
  pc,         \* where the caller of run, or run itself, is
  calls,      \* how many times run is called on src
  addr_list,  \* run's addr_list
  results,    \* what the calls of run returned, in order
  out,        \* standard output
  status      \* the exit status, -1 while running

vars == <<strict, argv, kind, src, pos, pc, calls, addr_list, results, out, status>>

\* main, started from the command line: run is given backtick's generator
Init ==
  /\ strict \in BOOLEAN
  /\ argv \in {<<>>, << <<>> >>, << <<"a">> >>}
  /\ kind = "generator"
  /\ src \in GitOutputs
  /\ pos = 0
  /\ pc = "main"
  /\ calls = 1
  /\ addr_list = <<>>
  /\ results = <<>>
  /\ out = <<>>
  /\ status = -1

\* parser.parse_args(): revspec is a required positional argument
ParseArgs ==
  /\ pc = "main"
  /\ IF argv = <<>>
     THEN pc' = "exited" /\ status' = 2
     ELSE pc' = "revspec" /\ status' = status
  /\ UNCHANGED <<strict, argv, kind, src, pos, calls, addr_list, results, out>>

\* if args.revspec: contributors = fd.run(backtick([...]))
CallRun ==
  /\ pc = "revspec"
  /\ IF argv[1] # <<>>
     THEN pc' = "loop" /\ addr_list' = <<>> /\ pos' = 0
     ELSE pc' = "print" /\ UNCHANGED <<addr_list, pos>>
  /\ UNCHANGED <<strict, argv, kind, src, calls, results, out, status>>

\* One iteration of 'for line in lines': the next line, and what it appends.
RunLine ==
  /\ pc = "loop"
  /\ pos < Len(src)
  /\ pos' = pos + 1
  /\ addr_list' = addr_list \o LineAddrs(src[pos + 1], strict)
  /\ UNCHANGED <<strict, argv, kind, src, pc, calls, results, out, status>>

\* The iterator is exhausted: return sorted(set(addr_list)).
RunReturn ==
  /\ pc = "loop"
  /\ pos = Len(src)
  /\ results' = Append(results, sorted_set(addr_list))
  /\ pc' = "returned"
  /\ UNCHANGED <<strict, argv, kind, src, pos, calls, addr_list, out, status>>

\* print(args.separator.join(sorted(contributors))); return 0.  contributors
\* is bound only if run was called.
PrintResult ==
  /\ pc \in {"returned", "print"}
  /\ IF results = <<>>
     THEN status' = 1 /\ out' = out
     ELSE status' = 0 /\ out' = join(separator, sorted(results[1])) \o <<NL>>
  /\ pc' = "exited"
  /\ UNCHANGED <<strict, argv, kind, src, pos, calls, addr_list, results>>

Next == ParseArgs \/ CallRun \/ RunLine \/ RunReturn \/ PrintResult

Spec == Init /\ [][Next]_vars

----------------------------------------------------------------------------
(* run called on its own, up to `calls` times on the same lines *)

\* a list iterated like a generator: from where the last loop stopped
IterStart_resume(k, p) == p

\* iter(lines) at the head of the for loop: a list is iterated from its
\* start, a generator is its own iterator and goes on where it is
IterStart(k, p) == IF k = "list" THEN 0 ELSE p

StartRun ==
  /\ pc \in {"start", "returned"}
  /\ Len(results) < calls
  /\ addr_list' = <<>>
  /\ pos' = IterStart(kind, pos)
  /\ pc' = "loop"
  /\ UNCHANGED <<strict, argv, kind, src, calls, results, out, status>>

InitRun ==
  /\ strict \in BOOLEAN
  /\ argv = <<>>
  /\ kind \in {"list", "generator"}
  /\ src \in Inputs
  /\ pos = 0
  /\ pc = "start"
  /\ calls = MaxCalls
  /\ addr_list = <<>>
  /\ results = <<>>
  /\ out = <<>>
  /\ status = -1

NextRun == StartRun \/ RunLine \/ RunReturn

SpecRun == InitRun /\ [][NextRun]_vars

\* run called once on one Cc line, over every payload
InitLine ==
  /\ strict \in BOOLEAN
  /\ argv = <<>>
  /\ kind = "list"
  /\ src \in {<<l>> : l \in CcLines}
  /\ pos = 0
  /\ pc = "start"
  /\ calls = 1
  /\ addr_list = <<>>
  /\ results = <<>>
  /\ out = <<>>
  /\ status = -1

SpecLine == InitLine /\ [][NextRun]_vars

----------------------------------------------------------------------------
(* Properties of run, under SpecRun *)

\* the first call of run has returned
FirstReturned == pc = "returned" /\ Len(results) = 1

StrictlyAscending(s) == \A i \in 1..Len(s) - 1 : StrLess(s[i], s[i + 1])

NoDuplicates(s) == \A i, j \in 1..Len(s) : i # j => s[i] # s[j]

\* s lists the set S in ascending order, each element once
IsSortedSetOf(s, S) == Range(s) = S /\ StrictlyAscending(s) /\ NoDuplicates(s)

\* line is white space, tag n in any case and a colon, from index a + 1 on
TagColonAt(line, n, a) ==
  /\ \A i \in 1..a : IsSpace(line[i])
  /\ Len(line) >= a + Len(Tags[n]) + 1
  /\ \A i \in 1..Len(Tags[n]) : Lower(line[a + i]) = Tags[n][i]
  /\ line[a + Len(Tags[n]) + 1] = ":"

\* A trailer as the text describes it: after the leading white space a tag,
\* a colon, at least one white space character and a further character.
IsTrailer(line) ==
  \E n \in 1..Len(Tags), a \in 0..Len(line) :
    /\ TagColonAt(line, n, a)
    /\ Len(line) >= a + Len(Tags[n]) + 3
    /\ IsSpace(line[a + Len(Tags[n]) + 2])
    /\ \E i \in a + Len(Tags[n]) + 3..Len(line) : ~IsSpace(line[i])

\* a tag and a colon with nothing or only white space after it
IsBlankTrailer(line) ==
  \E n \in 1..Len(Tags), a \in 0..Len(line) :
    /\ TagColonAt(line, n, a)
    /\ \A i \in a + Len(Tags[n]) + 2..Len(line) : IsSpace(line[i])

NotBlankTrailer(line) == ~IsBlankTrailer(line)

\* the candidates run hands to _handle_addr for a payload
Candidates(rightside) ==
  IF r2_match(rightside) THEN split(rightside, ",") ELSE <<rightside>>

\* C1: every list run returns is in strictly ascending order and holds no
\* entry twice.
C1_SortedNoDuplicates ==
  \A n \in 1..Len(results) :
    StrictlyAscending(results[n]) /\ NoDuplicates(results[n])

\* run returned two or more addresses, found out of order and more than once
C1_Witness ==
  /\ FirstReturned
  /\ Len(results[1]) >= 2
  /\ ~StrictlyAscending(addr_list)
  /\ Len(addr_list) > Cardinality(Range(addr_list))

\* C3: when run has returned, the address _handle_addr resolves for every
\* candidate of every line that matches the trailer pattern is in the result.
C3_MatchedLineContributes ==
  FirstReturned =>
    \A i \in 1..Len(src) :
      r1_match(strip(src[i])) =>
        /\ results[1] # <<>>
        /\ \A c \in Range(Candidates(r1_group2(strip(src[i])))) :
             _handle_addr(c, strict) \in Range(results[1])

\* a matching line whose payload resolved to the empty string, and another
\* whose payload was kept verbatim
C3_Witness ==
  /\ FirstReturned
  /\ <<>> \in Range(results[1])
  /\ <<"<", ">">> \in Range(results[1])

\* C4: a line contributes only if it is a trailer (tag, colon, white space,
\* a further character), and the result is that of the trailer lines alone.
C4_OnlyTrailersContribute ==
  FirstReturned =>
    /\ \A i \in 1..Len(src) :
         LineAddrs(src[i], strict) # <<>> => IsTrailer(src[i])
    /\ results[1] = run(SelectSeq(src, IsTrailer), strict)

\* a trailer and a line that is none (the tag is not at the start, is not
\* followed by white space, or is unknown), and a result that is not empty
C4_Witness ==
  /\ FirstReturned
  /\ results[1] # <<>>
  /\ \E i, j \in 1..Len(src) :
       /\ IsTrailer(src[i])
       /\ ~IsTrailer(src[j])
       /\ \E x \in 1..Len(src[j]) : src[j][x] = "@"

\* C5 as stated: a tag and a colon with an empty or blank payload puts the
\* empty string in the result.
C5_BlankPayloadGivesEmptyAddress ==
  (FirstReturned /\ \E i \in 1..Len(src) : IsBlankTrailer(src[i]))
    => <<>> \in Range(results[1])

\* C5, amended: a tag and a colon with an empty or blank payload does not
\* match and contributes nothing: the result is that of the other lines.
C5_BlankPayloadDiscarded ==
  FirstReturned =>
    /\ \A i \in 1..Len(src) :
         IsBlankTrailer(src[i]) => LineAddrs(src[i], strict) = <<>>
    /\ results[1] = run(SelectSeq(src, NotBlankTrailer), strict)
    /\ (\A i \in 1..Len(src) : IsBlankTrailer(src[i])) => results[1] = <<>>

\* a blank trailer with white space after the colon, beside a line that
\* contributes
C5_Witness ==
  /\ FirstReturned
  /\ results[1] # <<>>
  /\ \E i \in 1..Len(src) :
       /\ IsBlankTrailer(src[i])
       /\ \E x \in 1..Len(src[i]) - 1 : src[i][x] = ":" /\ src[i][x + 1] = " "

\* C7 as stated: every call of run on the same lines returns what the first
\* call returned.
C7_SecondRunSame == \A n \in 1..Len(results) : results[n] = results[1]

\* C7, amended: whenever a call has returned, every call of run on the same
\* list has returned the result of the first; on the same generator the first
\* call consumed the lines and every later call returned the empty list.
C7_SameOnListEmptyOnGenerator ==
  pc = "returned" =>
    \A n \in 1..Len(results) :
      results[n] = IF kind = "list" \/ n = 1 THEN run(src, strict) ELSE <<>>

\* a list run over twice, with at least one address
C7_Witness ==
  /\ kind = "list"
  /\ Len(results) >= 2
  /\ results[2] # <<>>

Permuted(lines, perm) == [i \in 1..Len(lines) |-> lines[perm[i]]]

\* C10: the result is the sorted union, without duplicates, of the results of
\* any prefix and the rest, and is the result of the lines in any order or
\* repeated.
C10_OrderAndMultiplicity ==
  FirstReturned =>
    /\ \A k \in 0..Len(src) :
         IsSortedSetOf(results[1],
                       Range(run(SubSeq(src, 1, k), strict))
                         \cup Range(run(SubSeq(src, k + 1, Len(src)), strict)))
    /\ \A perm \in Permutations(1..Len(src)) :
         run(Permuted(src, perm), strict) = results[1]
    /\ run(src \o src, strict) = results[1]

\* two different lines that contribute, the later one sorting first
C10_Witness ==
  /\ FirstReturned
  /\ Len(src) >= 2
  /\ LineAddrs(src[1], strict) # <<>>
  /\ LineAddrs(src[2], strict) # <<>>
  /\ StrLess(LineAddrs(src[2], strict)[1], LineAddrs(src[1], strict)[1])

----------------------------------------------------------------------------
(* Properties of one trailer line, under SpecLine *)

\* the payload of the one line of src
Payload == r1_group2(strip(src[1]))

\* run has returned and the line of src matched the trailer pattern
LineDone == FirstReturned /\ Len(src) = 1 /\ r1_match(strip(src[1]))

\* the text of c before its first '#'
BeforeHash(c) ==
  SubSeq(c, 1, Min({i \in 1..Len(c) : c[i] = "#"} \cup {Len(c) + 1}) - 1)

\* the comma-separated tokens of a payload that hold an '@'
AtTokens(rightside) ==
  {i \in 1..Len(split(rightside, ",")) :
     \E x \in 1..Len(split(rightside, ",")[i]) : split(rightside, ",")[i][x] = "@"}

\* C2: a payload with two or more comma-separated tokens that hold an '@' is
\* split on commas and the address of every segment is in the result; any
\* other payload is handled as one candidate.
C2_SplitsOnTwoAddresses ==
  LineDone =>
    IF Cardinality(AtTokens(Payload)) >= 2
    THEN \A c \in Range(split(Payload, ",")) :
           _handle_addr(c, strict) \in Range(results[1])
    ELSE results[1] = <<_handle_addr(Payload, strict)>>

\* a has a '<' with a '>' somewhere after it
HasBracketPair(a) ==
  \E i, j \in 1..Len(a) : i < j /\ a[i] = "<" /\ a[j] = ">"

\* the text between the last '<' that has a '>' after it and the first '>'
\* after that '<'
BetweenLastPair_from(a, i) ==
  SubSeq(a, i + 1, Min({j \in i + 1..Len(a) : a[j] = ">"}) - 1)

BetweenLastPair(a) ==
  BetweenLastPair_from(a, Max({i \in 1..Len(a) :
                                 a[i] = "<" /\ \E j \in i + 1..Len(a) : a[j] = ">"}))

\* the three branches as C8 states them, for the text a before the '#'
ResolvedAsStated(a, parsed) ==
  IF parsed # <<>> THEN parsed
  ELSE IF HasBracketPair(a) THEN BetweenLastPair(a)
  ELSE a

\* C8 as stated: each candidate resolves to the parsed address if there is
\* one, else to the text between the last '<' and its closing '>' if the text
\* has a pair of angle brackets, else to the text before the '#'.
C8_PrecedenceAsStated ==
  LineDone =>
    /\ Len(addr_list) = Len(Candidates(Payload))
    /\ \A i \in 1..Len(addr_list) :
         addr_list[i] = ResolvedAsStated(BeforeHash(Candidates(Payload)[i]),
                                         parseaddr(BeforeHash(Candidates(Payload)[i]), strict))

\* a has a '<', at least one character, and then a '>'
HasFilledBrackets(a) ==
  \E i, j \in 1..Len(a) : i + 2 <= j /\ a[i] = "<" /\ a[j] = ">"

\* the text from after the last '<' that is two or more places before the
\* last '>' of a, up to that last '>'
BetweenFilled_to(a, j) ==
  SubSeq(a, Max({i \in 1..j - 2 : a[i] = "<"}) + 1, j - 1)

BetweenFilled(a) == BetweenFilled_to(a, Max({j \in 1..Len(a) : a[j] = ">"}))

ResolvedAmended(a, parsed) ==
  IF parsed # <<>> THEN parsed
  ELSE IF HasFilledBrackets(a) THEN BetweenFilled(a)
  ELSE a

\* C8, amended: each candidate resolves to the parsed address if there is
\* one; else, if the text before the '#' has a '<' followed by at least one
\* character and a '>', to the text from after the last such '<' up to the
\* last '>'; else to the text before the '#'.
C8_PrecedenceAmended ==
  LineDone =>
    /\ Len(addr_list) = Len(Candidates(Payload))
    /\ \A i \in 1..Len(addr_list) :
         addr_list[i] = ResolvedAmended(BeforeHash(Candidates(Payload)[i]),
                                        parseaddr(BeforeHash(Candidates(Payload)[i]), strict))

\* a candidate that parseaddr made nothing of, resolved from angle brackets
\* that hold a '>' themselves
C8_Witness ==
  /\ LineDone
  /\ parseaddr(BeforeHash(Payload), strict) = <<>>
  /\ HasFilledBrackets(BeforeHash(Payload))
  /\ addr_list = <<BetweenFilled(BeforeHash(Payload))>>
  /\ \E x \in 1..Len(addr_list[1]) : addr_list[1][x] = ">"

\* C9: when the payload is split, the address of each segment is the one
\* resolved from that segment's text before its first '#', whatever the other
\* segments hold.
C9_HashStrippedPerSegment ==
  (LineDone /\ r2_match(Payload)) =>
    /\ Len(addr_list) = Len(split(Payload, ","))
    /\ \A i \in 1..Len(addr_list) :
         addr_list[i] = handle_stripped(BeforeHash(split(Payload, ",")[i]), strict)

\* a split payload with a '#' in a segment that is not the last, and a later
\* segment that resolves to an address
C9_Witness ==
  /\ LineDone
  /\ r2_match(Payload)
  /\ \E i \in 1..Len(addr_list) - 1 :
       /\ \E x \in 1..Len(split(Payload, ",")[i]) : split(Payload, ",")[i][x] = "#"
       /\ addr_list[Len(addr_list)] # <<>>

----------------------------------------------------------------------------
(* Properties of main, under Spec *)

\* C6: started without a revision specifier, or with an empty one, main
\* exits with status 0 after printing the joined result of the extraction.
C6_NoRevspecPrintsResult ==
  (pc = "exited" /\ (argv = <<>> \/ argv[1] = <<>>)) =>
    /\ status = 0
    /\ out = join(separator, run(src, strict)) \o <<NL>>

====
